---- MODULE Spec2Model ----
(***************************************************************************)
(* A model of the think-bot i18n tooling:                                  *)
(*   scripts/key_merger.py   (class I18nKeyMerger, the merge run)          *)
(*   scripts/i18n_manager.py (class I18nManager, the analysis run)         *)
(* The file system is the state: one messages.json per language (store)    *)
(* and the source artifacts (files).  A catalog is a function from keys to *)
(* message entries; a source artifact is a sequence of lines, each line    *)
(* one reference token (pattern kind, key literal) or plain text, with the *)
(* line terminator that ends it.                                           *)
(***************************************************************************)
EXTENDS Integers, Sequences, FiniteSets, TLC

VARIABLES
    store,          \* language -> content of _locales/<lang>/messages.json
    files,          \* artifact path -> its lines
    merge_mapping,  \* I18nKeyMerger.merge_mapping, in dict (insertion) order
    pc,             \* position of the merge run
    lang,           \* index in LangOrder of the language being processed
    idx,            \* index in merge_mapping of the entry being processed
    messages,       \* merge_language_files' local `messages`
    outcome,        \* language -> how its processing ended in this run
    rerun,          \* TRUE once the merge script has been started a second time
    store0,         \* store when the first run started
    files0,         \* files when the first run started
    store1,         \* store when the second run started (once rerun)
    outcome1,       \* outcome of the first run (once rerun)
    written,        \* artifacts update_file_key_references has written so far
    linesep,        \* os.linesep of the platform the scripts run on
    apc,            \* position of the analysis run
    code_keys,      \* the last result of scan_code_for_keys
    missing_keys,   \* run_analysis' missing_keys
    unused_keys,    \* run_analysis' unused_keys
    duplicate_texts, \* run_analysis' duplicate_texts
    template,       \* the keys of scripts/missing_keys.json, once generated
    todo,           \* languages clean_unused_keys_interactive has yet to ask about
    clean_confirmed, \* the user answered yes to "Clean unused keys interactively?"
    lang_confirmed  \* languages the user answered yes for to "Remove all ...?"

analysisVars == <<apc, code_keys, missing_keys, unused_keys, duplicate_texts,
                  template, todo, clean_confirmed, lang_confirmed>>

vars == <<store, files, merge_mapping, pc, lang, idx, messages, outcome,
          rerun, store0, files0, store1, outcome1, written, linesep,
          analysisVars>>

----------------------------------------------------------------------------
(* Bounds of the model *)

\* most keys a catalog of the free language holds when a run starts
MaxCatKeys == 2

\* most lines of sidebar.html when update_code_references starts
MaxLines == 2

----------------------------------------------------------------------------
(* Data *)

\* the languages merge_language_files processes, in its order
LangOrder == <<"en", "zh_CN">>

Langs == {LangOrder[n] : n \in 1..Len(LangOrder)}

\* the keys merge_language_files adds when they are missing
NewKeyNames == <<"common_model", "common_send_message">>

NewKeySet == {NewKeyNames[n] : n \in 1..Len(NewKeyNames)}

\* the entry merge_language_files adds for a key and a language
NewKeyEntry(key, lang_code) ==
    [message |-> IF key = "common_model"
                 THEN IF lang_code = "en"
                      THEN <<"M", "o", "d", "e", "l">>
                      ELSE <<"u9ED8", "u8BA4", "u6A21", "u578B">>
                 ELSE IF lang_code = "en"
                      THEN <<"S", "e", "n", "d", " ", "m", "e", "s", "s", "a", "g", "e">>
                      ELSE <<"u53D1", "u9001", "u6D88", "u606F">>,
     aux |-> "-"]

\* Python's None, the mapping target that marks a key for removal
None == "<None>"

\* str(None), what an f-string makes of None
StrOf(v) == IF v = None THEN "None" ELSE v

Keys == {"p", "q", "r"} \cup NewKeySet

\* a message entry: the text of its "message" field (a sequence of
\* characters) and its other fields ("-" when it has none)
Entry(text, aux) == [message |-> text, aux |-> aux]

MergeEntries == {Entry(<<"a">>, "-"), Entry(<<"b">>, "ph")}

\* the content of a messages.json: no file, a file open() cannot read
\* (PermissionError), unparsable text, a JSON object (key -> entry) or a
\* JSON array of strings
Absent == [kind |-> "absent", d |-> <<>>, items |-> {}]

Unreadable == [kind |-> "unreadable", d |-> <<>>, items |-> {}]

Malformed == [kind |-> "malformed", d |-> <<>>, items |-> {}]

DictFile(d) == [kind |-> "dict", d |-> d, items |-> {}]

ListFile(s) == [kind |-> "list", d |-> <<>>, items |-> s]

\* dict operations
DictDel(d, k) == [x \in DOMAIN d \ {k} |-> d[x]]

DictSet(d, k, v) == [x \in DOMAIN d \cup {k} |-> IF x = k THEN v ELSE d[x]]

----------------------------------------------------------------------------
(* key_merger.py: merge_language_files *)

\* the cases a loaded value raises in: a JSON array supports `in` and len()
\* but neither messages[key] nor del messages[key] with a string key
Raises == [kind |-> "raised", d |-> <<>>, items |-> {}]

\* ApplyEntry with the `del messages[old_key]` after the move left out
ApplyEntry_KeepOld(msgs, old_key, new_key) ==
    IF msgs.kind = "list"
    THEN IF old_key \in msgs.items THEN Raises ELSE msgs
    ELSE IF old_key \in DOMAIN msgs.d
         THEN IF new_key = None
              THEN DictFile(DictDel(msgs.d, old_key))
              ELSE IF new_key \notin DOMAIN msgs.d
                   THEN DictFile(DictSet(msgs.d, new_key, msgs.d[old_key]))
                   ELSE DictFile(DictDel(msgs.d, old_key))
         ELSE msgs

\* ApplyEntry moving only the message text, not the whole entry
ApplyEntry_MessageOnly(msgs, old_key, new_key) ==
    IF msgs.kind = "list"
    THEN IF old_key \in msgs.items THEN Raises ELSE msgs
    ELSE IF old_key \in DOMAIN msgs.d
         THEN IF new_key = None
              THEN DictFile(DictDel(msgs.d, old_key))
              ELSE IF new_key \notin DOMAIN msgs.d
                   THEN DictFile(DictDel(DictSet(msgs.d, new_key,
                                                 Entry(msgs.d[old_key].message, "-")),
                                         old_key))
                   ELSE DictFile(DictDel(msgs.d, old_key))
         ELSE msgs

\* ApplyEntry with the entry of old_key written over the one new_key holds
ApplyEntry_LastWins(msgs, old_key, new_key) ==
    IF msgs.kind = "list"
    THEN IF old_key \in msgs.items THEN Raises ELSE msgs
    ELSE IF old_key \in DOMAIN msgs.d
         THEN IF new_key = None
              THEN DictFile(DictDel(msgs.d, old_key))
              ELSE DictFile(DictDel(DictSet(msgs.d, new_key, msgs.d[old_key]),
                                    old_key))
         ELSE msgs

\* one iteration of the loop over merge_mapping.items()
ApplyEntry(msgs, old_key, new_key) ==
    IF msgs.kind = "list"
    THEN IF old_key \in msgs.items THEN Raises ELSE msgs
    ELSE IF old_key \in DOMAIN msgs.d
         THEN IF new_key = None
              THEN DictFile(DictDel(msgs.d, old_key))
              ELSE IF new_key \notin DOMAIN msgs.d
                   THEN DictFile(DictDel(DictSet(msgs.d, new_key, msgs.d[old_key]),
                                         old_key))
                   ELSE DictFile(DictDel(msgs.d, old_key))
         ELSE msgs

\* AddNewKey without the `key not in messages` test
AddNewKey_Overwrite(msgs, key, lang_code) ==
    IF msgs.kind = "raised"
    THEN msgs
    ELSE IF msgs.kind = "list"
         THEN Raises
         ELSE DictFile(DictSet(msgs.d, key, NewKeyEntry(key, lang_code)))

\* one iteration of the loop over new_keys.items()
AddNewKey(msgs, key, lang_code) ==
    IF msgs.kind = "raised"
    THEN msgs
    ELSE IF msgs.kind = "list"
         THEN IF key \notin msgs.items THEN Raises ELSE msgs
         ELSE IF key \notin DOMAIN msgs.d
              THEN DictFile(DictSet(msgs.d, key, NewKeyEntry(key, lang_code)))
              ELSE msgs

CurLang == LangOrder[lang]

\* the end of one language's iteration: the next language, or the return
\* to run_merge, which goes on to update_code_references
NextLanguage ==
    /\ idx' = 1
    /\ messages' = Absent
    /\ IF lang < Len(LangOrder)
       THEN lang' = lang + 1 /\ pc' = "load"
       ELSE lang' = lang /\ pc' = "update"

\* the mapping loop taking the entries last to first
ApplyMappingEntry_Reversed ==
    /\ pc = "apply"
    /\ LET at == Len(merge_mapping) + 1 - idx
           res == ApplyEntry(messages, merge_mapping[at][1], merge_mapping[at][2])
       IN  IF res.kind = "raised"
           THEN /\ outcome' = [outcome EXCEPT ![CurLang] = "compute_error"]
                /\ NextLanguage
                /\ UNCHANGED store
           ELSE /\ messages' = res
                /\ lang' = lang
                /\ IF idx < Len(merge_mapping)
                   THEN idx' = idx + 1 /\ pc' = "apply"
                   ELSE idx' = 1 /\ pc' = "addkeys"
                /\ UNCHANGED <<outcome, store>>
    /\ UNCHANGED <<files, merge_mapping, rerun, store0, files0, store1, outcome1,
                   written, linesep, analysisVars>>

\* the mapping loop saving the catalog after every entry
ApplyMappingEntry_SaveEachStep ==
    /\ pc = "apply"
    /\ LET res == ApplyEntry(messages, merge_mapping[idx][1], merge_mapping[idx][2])
       IN  IF res.kind = "raised"
           THEN /\ outcome' = [outcome EXCEPT ![CurLang] = "compute_error"]
                /\ NextLanguage
                /\ UNCHANGED store
           ELSE /\ messages' = res
                /\ store' = [store EXCEPT ![CurLang] = res]
                /\ lang' = lang
                /\ IF idx < Len(merge_mapping)
                   THEN idx' = idx + 1 /\ pc' = "apply"
                   ELSE idx' = 1 /\ pc' = "addkeys"
                /\ UNCHANGED outcome
    /\ UNCHANGED <<files, merge_mapping, rerun, store0, files0, store1, outcome1,
                   written, linesep, analysisVars>>

\* the loop over new_keys.items()
AddNewKeys(msgs, lang_code) ==
    AddNewKey(AddNewKey(msgs, NewKeyNames[1], lang_code), NewKeyNames[2], lang_code)

\* messages = self.load_language_file(lang_code)
LoadLanguageFile ==
    /\ pc = "load"
    /\ IF store[CurLang].kind \in {"absent", "unreadable", "malformed"}
       THEN /\ outcome' = [outcome EXCEPT ![CurLang] = "load_error"]
            /\ NextLanguage
       ELSE /\ messages' = store[CurLang]
            /\ idx' = 1
            /\ lang' = lang
            /\ pc' = IF Len(merge_mapping) = 0 THEN "addkeys" ELSE "apply"
            /\ UNCHANGED outcome
    /\ UNCHANGED <<store, files, merge_mapping, rerun, store0, files0, store1, outcome1,
                   written, linesep, analysisVars>>

\* for old_key, new_key in self.merge_mapping.items(): one iteration
ApplyMappingEntry ==
    /\ pc = "apply"
    /\ LET res == ApplyEntry(messages, merge_mapping[idx][1], merge_mapping[idx][2])
       IN  IF res.kind = "raised"
           THEN /\ outcome' = [outcome EXCEPT ![CurLang] = "compute_error"]
                /\ NextLanguage
           ELSE /\ messages' = res
                /\ lang' = lang
                /\ IF idx < Len(merge_mapping)
                   THEN idx' = idx + 1 /\ pc' = "apply"
                   ELSE idx' = 1 /\ pc' = "addkeys"
                /\ UNCHANGED outcome
    /\ UNCHANGED <<store, files, merge_mapping, rerun, store0, files0, store1, outcome1,
                   written, linesep, analysisVars>>

\* for key, lang_data in new_keys.items(): ...
AddMissingNewKeys ==
    /\ pc = "addkeys"
    /\ LET res == AddNewKeys(messages, CurLang)
       IN  IF res.kind = "raised"
           THEN /\ outcome' = [outcome EXCEPT ![CurLang] = "compute_error"]
                /\ NextLanguage
           ELSE /\ messages' = res
                /\ lang' = lang
                /\ idx' = idx
                /\ pc' = "save"
                /\ UNCHANGED outcome
    /\ UNCHANGED <<store, files, merge_mapping, rerun, store0, files0, store1, outcome1,
                   written, linesep, analysisVars>>

\* self.save_language_file(lang_code, messages): open(..., 'w') may fail
\* (the file is as it was) and json.dump may fail after the file was truncated
SaveLanguageFile ==
    /\ pc = "save"
    /\ \E io \in {"ok", "open_fails", "write_fails"} :
          /\ store' = [store EXCEPT ![CurLang] =
                          CASE io = "ok" -> messages
                            [] io = "open_fails" -> @
                            [] OTHER -> Malformed]
          /\ outcome' = [outcome EXCEPT ![CurLang] =
                          IF io = "ok" THEN "saved" ELSE "save_error"]
    /\ NextLanguage
    /\ UNCHANGED <<files, merge_mapping, rerun, store0, files0, store1, outcome1,
                   written, linesep, analysisVars>>

----------------------------------------------------------------------------
(* Source artifacts *)

\* the reference pattern kinds; a line of plain text has kind "text"
RefKinds == {"getMessage", "data-i18n", "data-i18n-title",
             "data-i18n-placeholder", "data-i18n-suffix", "__MSG__"}

\* the line terminators of a file: "\n" and "\r\n"
LF == "\n"

CRLF == "\r\n"

LineSeps == {LF, CRLF}

Ref(kind, key) == [kind |-> kind, key |-> key, eol |-> LF]

TextLine == [kind |-> "text", key |-> "", eol |-> LF]

\* the same line ended by the terminator e
EndedBy(line, e) == [line EXCEPT !.eol = e]

\* the artifacts of the project and the glob pattern each one matches
FileExt == [f \in {"sidebar.html", "manifest.json"} |->
               IF f = "sidebar.html" THEN "html" ELSE "json"]

FileNames == DOMAIN FileExt

\* str.lower() on the key literals of the model (re.IGNORECASE)
Lower(k) == IF k = "P" THEN "p" ELSE k

----------------------------------------------------------------------------
(* key_merger.py: update_code_references *)

\* self.scan_patterns of I18nKeyMerger: "**/*.js", "**/*.html"
MergerScanExts == {"js", "html"}

\* the kinds the eight patterns of find_key_usage_in_files and of
\* update_file_key_references match: four getMessage forms, four data-i18n
\* forms, and no __MSG_<key>__ form
MergerKinds == {"getMessage", "data-i18n", "data-i18n-title",
                "data-i18n-placeholder", "data-i18n-suffix"}

\* a line on which one of the patterns built from `key` matches
LineUsesKey(line, key) ==
    /\ line.kind \in MergerKinds
    /\ Lower(line.key) = Lower(key)

\* find_key_usage_in_files(key): the (file, line number) pairs of its list
FindKeyUsageInFiles(fs, key) ==
    {<<f, n>> \in UNION {{f} \X (1..Len(fs[f])) : f \in FileNames} :
        /\ FileExt[f] \in MergerScanExts
        /\ LineUsesKey(fs[f][n], key)}

\* open(file_path, 'r', encoding='utf-8').read(): text mode with universal
\* newlines, every line terminator comes back as "\n"
ReadText(raw) == [n \in 1..Len(raw) |-> EndedBy(raw[n], LF)]

\* open(file_path, 'w', encoding='utf-8').write(text): text mode, every "\n"
\* goes out as os.linesep
WriteText(text, sep) == [n \in 1..Len(text) |-> EndedBy(text[n], sep)]

\* update_file_key_references: the content after the eight re.sub calls
UpdatedContent(content, old_key, new_key) ==
    [n \in 1..Len(content) |->
        IF LineUsesKey(content[n], old_key)
        THEN [content[n] EXCEPT !.key = StrOf(new_key)]
        ELSE content[n]]

\* update_file_key_references: whether `updated_content != content`
ContentChanges(raw, old_key, new_key) ==
    UpdatedContent(ReadText(raw), old_key, new_key) # ReadText(raw)

\* update_file_key_references: the file after the call
UpdateFileKeyReferences(raw, old_key, new_key, sep) ==
    IF ContentChanges(raw, old_key, new_key)
    THEN WriteText(UpdatedContent(ReadText(raw), old_key, new_key), sep)
    ELSE raw

\* for old_key, new_key in self.merge_mapping.items(): one iteration.
\* A file whose open(..., 'w') fails is reported and stays as it was.
UpdateCodeReferences ==
    /\ pc = "update"
    /\ Len(merge_mapping) > 0
    /\ LET old_key == merge_mapping[idx][1]
           new_key == merge_mapping[idx][2]
           usage_list == FindKeyUsageInFiles(files, old_key)
           files_to_update == {u[1] : u \in usage_list}
       IN  \E failing \in SUBSET files_to_update :
              /\ files' = [f \in FileNames |->
                             IF f \in files_to_update \ failing
                             THEN UpdateFileKeyReferences(files[f], old_key, new_key,
                                                          linesep)
                             ELSE files[f]]
              /\ written' = written \cup
                                {f \in files_to_update \ failing :
                                    ContentChanges(files[f], old_key, new_key)}
    /\ IF idx < Len(merge_mapping)
       THEN idx' = idx + 1 /\ pc' = "update"
       ELSE idx' = 1 /\ pc' = "done"
    /\ UNCHANGED <<store, merge_mapping, lang, messages, outcome, rerun,
                   store0, files0, store1, outcome1, linesep,
                   analysisVars>>

\* run_merge with an empty mapping has nothing to update
NothingToUpdate ==
    /\ pc = "update"
    /\ Len(merge_mapping) = 0
    /\ pc' = "done"
    /\ UNCHANGED <<store, files, merge_mapping, lang, idx, messages, outcome,
                   rerun, store0, files0, store1, outcome1,
                   written, linesep, analysisVars>>

Pending == [l \in Langs |-> "pending"]

\* main() of key_merger.py is started again on what the first run left
RunMergeAgain ==
    /\ pc = "done"
    /\ ~rerun
    /\ rerun' = TRUE
    /\ pc' = "load"
    /\ lang' = 1
    /\ idx' = 1
    /\ messages' = Absent
    /\ outcome1' = outcome
    /\ outcome' = Pending
    /\ store1' = store
    /\ UNCHANGED <<store, files, merge_mapping, store0, files0, written, linesep,
                   analysisVars>>

----------------------------------------------------------------------------
(* Initial states of a merge run *)

\* no analysis run is in progress
AnalysisIdle ==
    /\ apc = "idle"
    /\ code_keys = {}
    /\ missing_keys = <<>>
    /\ unused_keys = <<>>
    /\ duplicate_texts = <<>>
    /\ template = {}
    /\ todo = {}
    /\ clean_confirmed = FALSE
    /\ lang_confirmed = {}

\* the catalogs with at most n keys
Catalogs(n) ==
    UNION {[S -> MergeEntries] : S \in {T \in SUBSET Keys : Cardinality(T) <= n}}

\* what the other language's messages.json holds
OtherStores ==
    {Absent, Malformed, ListFile({"p"}), ListFile(NewKeySet),
     DictFile([k \in {"p", "r"} |-> Entry(<<"a">>, "-")])}

\* the mappings tried: rename, tombstone, chains, many-to-one, and the keys
\* merge_language_files adds as old and as new keys
Mappings ==
    { <<>>,
      <<<<"p", "q">>>>,
      <<<<"p", None>>>>,
      <<<<"p", "q">>, <<"r", "p">>>>,
      <<<<"r", "p">>, <<"p", "q">>>>,
      <<<<"p", "q">>, <<"r", "q">>>>,
      <<<<"p", "q">>, <<"r", None>>>>,
      <<<<"common_model", "q">>>>,
      <<<<"common_model", None>>>>,
      <<<<"p", "common_model">>>>,
      <<<<"p", "q">>, <<"common_model", "p">>>> }

\* the source tree of the merge runs: a page that references p and the
\* manifest, which names p in a placeholder
MergeRunFiles ==
    [f \in FileNames |->
        IF f = "sidebar.html"
        THEN <<TextLine, Ref("data-i18n", "p")>>
        ELSE <<Ref("__MSG__", "p")>>]

InitRun ==
    /\ pc = "load"
    /\ lang = 1
    /\ idx = 1
    /\ messages = Absent
    /\ outcome = Pending
    /\ outcome1 = Pending
    /\ rerun = FALSE
    /\ store0 = store
    /\ store1 = store
    /\ files0 = files
    /\ written = {}
    /\ AnalysisIdle

\* a merge run, and a second one after it, on catalogs of every shape
Init ==
    /\ merge_mapping \in Mappings
    /\ \E free \in Langs, c \in Catalogs(MaxCatKeys), o \in OtherStores :
          store = [l \in Langs |-> IF l = free THEN DictFile(c) ELSE o]
    /\ files = MergeRunFiles
    /\ linesep = LF
    /\ InitRun

Next ==
    \/ LoadLanguageFile
    \/ ApplyMappingEntry
    \/ AddMissingNewKeys
    \/ SaveLanguageFile
    \/ UpdateCodeReferences
    \/ NothingToUpdate
    \/ RunMergeAgain

Spec == Init /\ [][Next]_vars

----------------------------------------------------------------------------
(* Properties of the merge run *)

\* the stored catalogs when the run in progress started
RunStart == IF rerun THEN store1 ELSE store0

OldKeyAt(n) == merge_mapping[n][1]

NewKeyAt(n) == merge_mapping[n][2]

EntryIndexes == 1..Len(merge_mapping)

\* language l was merged and saved by both runs
SavedTwice(l) == rerun /\ outcome1[l] = "saved" /\ outcome[l] = "saved"

\* no entry's new key is the old key of an earlier entry, and no entry
\* renames a key that merge_language_files adds itself
Settles ==
    /\ \A m, n \in EntryIndexes : m < n => NewKeyAt(n) # OldKeyAt(m)
    /\ \A n \in EntryIndexes : OldKeyAt(n) \in NewKeySet => NewKeyAt(n) = None

\* C1 as stated: for every mapping, chained ones included, a catalog that
\* was merged and saved twice is after the second run what it was after
\* the first.
C1_MergeIdempotent ==
    \A l \in Langs : SavedTwice(l) => store[l] = store1[l]

\* C1 amended: the second run leaves the catalog as the first run left it
\* when no entry's new key is the old key of an earlier entry and no entry
\* renames common_model or common_send_message.
C1_MergeIdempotentWhenSettled ==
    \A l \in Langs : SavedTwice(l) /\ Settles => store[l] = store1[l]

\* the first run changed the catalog (two old keys coalesced) and the
\* second run saved it again
C1_Witness ==
    \E l \in Langs :
        /\ SavedTwice(l)
        /\ Settles
        /\ Len(merge_mapping) = 2
        /\ store0[l].kind = "dict"
        /\ {OldKeyAt(1), OldKeyAt(2)} \subseteq DOMAIN store0[l].d
        /\ store1[l] # store0[l]

\* the first entry of the mapping meets, in l's catalog, a new key that
\* holds another text than the old key
ConflictAtStart(l) ==
    /\ Len(merge_mapping) >= 1
    /\ NewKeyAt(1) # None
    /\ NewKeyAt(1) # OldKeyAt(1)
    /\ RunStart[l].kind = "dict"
    /\ {OldKeyAt(1), NewKeyAt(1)} \subseteq DOMAIN RunStart[l].d
    /\ RunStart[l].d[OldKeyAt(1)].message # RunStart[l].d[NewKeyAt(1)].message

\* C2 as stated: when old and new are both in the catalog with different
\* message texts, the catalog is neither saved nor mutated: old keeps its
\* entry.
C2_ConflictSurfaced ==
    \A l \in Langs :
        ConflictAtStart(l) =>
            /\ outcome[l] # "saved"
            /\ store[l].kind = "dict" => store[l] = RunStart[l]

\* a line that references key under one of the six pattern kinds
References(line, key) == line.kind \in RefKinds /\ line.key = key

\* C3 as stated: after run_merge, for every entry old->new with new not
\* None, no artifact references old under any of the six pattern kinds, and
\* the key that stands where old stood is in every catalog that held old.
C3_CrossStoreConsistent ==
    (pc = "done" /\ ~rerun) =>
        \A n \in EntryIndexes :
            NewKeyAt(n) # None =>
                \A f \in FileNames :
                    \A i \in 1..Len(files[f]) :
                        /\ ~References(files[f][i], OldKeyAt(n))
                        /\ (References(files0[f][i], OldKeyAt(n))
                              /\ files[f][i] # files0[f][i]) =>
                              \A l \in Langs :
                                  (store0[l].kind = "dict"
                                     /\ OldKeyAt(n) \in DOMAIN store0[l].d) =>
                                      /\ store[l].kind = "dict"
                                      /\ files[f][i].key \in DOMAIN store[l].d

\* the mapping is {p->q, r->p} and the catalog loaded for the language in
\* progress holds p and r but not q
ChainCase ==
    /\ Len(merge_mapping) = 2
    /\ NewKeyAt(1) # None
    /\ NewKeyAt(2) = OldKeyAt(1)
    /\ store[CurLang].kind = "dict"
    /\ {OldKeyAt(1), OldKeyAt(2)} \subseteq DOMAIN store[CurLang].d
    /\ NewKeyAt(1) \notin DOMAIN store[CurLang].d

TombstoneCase(l) ==
    /\ Len(merge_mapping) = 1
    /\ NewKeyAt(1) = None
    /\ RunStart[l].kind = "dict"
    /\ OldKeyAt(1) \in DOMAIN RunStart[l].d
    /\ outcome[l] = "saved"

\* C5 as stated: after {old: None} is applied to a catalog holding old, the
\* saved catalog is the one before without old: no key added, removed or
\* changed besides.
C5_TombstoneFrame ==
    \A l \in Langs :
        TombstoneCase(l) =>
            store[l] = DictFile(DictDel(RunStart[l].d, OldKeyAt(1)))

\* C5 amended: after {old: None} every key other than old keeps its entry;
\* common_model and common_send_message are in the result, with the entry
\* merge_language_files has for them when they were absent or were old; no
\* other key is added and old, if not one of these two, is absent.
C5_TombstoneFrameButNewKeys ==
    \A l \in Langs :
        TombstoneCase(l) =>
            /\ store[l].kind = "dict"
            /\ DOMAIN store[l].d =
                  (DOMAIN RunStart[l].d \ {OldKeyAt(1)}) \cup NewKeySet
            /\ \A k \in DOMAIN store[l].d :
                  store[l].d[k] =
                      IF k \in DOMAIN RunStart[l].d /\ k # OldKeyAt(1)
                      THEN RunStart[l].d[k]
                      ELSE NewKeyEntry(k, l)

\* a tombstone was applied to a catalog that also held common_model, with
\* an entry of its own
C5_Witness ==
    \E l \in Langs :
        /\ TombstoneCase(l)
        /\ OldKeyAt(1) = "p"
        /\ "common_model" \in DOMAIN RunStart[l].d
        /\ store[l].kind = "dict"
        /\ "p" \notin DOMAIN store[l].d

\* the entry about to be applied renames: old is in messages, new is not
RenameCase ==
    /\ pc = "apply"
    /\ messages.kind = "dict"
    /\ NewKeyAt(idx) # None
    /\ OldKeyAt(idx) \in DOMAIN messages.d
    /\ NewKeyAt(idx) \notin DOMAIN messages.d

RECURSIVE AppliedUpTo(_, _)
AppliedUpTo(msgs, n) ==
    IF n = 0 \/ msgs.kind = "raised"
    THEN msgs
    ELSE LET before == AppliedUpTo(msgs, n - 1)
         IN  IF before.kind = "raised"
             THEN before
             ELSE ApplyEntry(before, OldKeyAt(n), NewKeyAt(n))

\* C7: a language's stored catalog differs from what it was when the run
\* started only once save_language_file has been called for it; a language
\* whose load or computation failed has the catalog it had; and when
\* save_language_file is about to be called, messages is the stored
\* catalog with every mapping entry and the new keys applied.
C7_AllOrNothing ==
    /\ \A l \in Langs :
          store[l] # RunStart[l] => outcome[l] \in {"saved", "save_error"}
    /\ pc = "save" =>
          /\ store[CurLang] = RunStart[CurLang]
          /\ messages = AddNewKeys(AppliedUpTo(store[CurLang], Len(merge_mapping)),
                                   CurLang)

\* one language's computation failed and left its catalog alone while the
\* other language's catalog was rewritten
C7_Witness ==
    \E l, k \in Langs :
        /\ outcome[l] = "compute_error"
        /\ store[l] = RunStart[l]
        /\ outcome[k] = "saved"
        /\ store[k] # RunStart[k]

\* the old keys of the mapping
OldKeys == {OldKeyAt(n) : n \in EntryIndexes}

\* the entries whose old key l's catalog held when the run started
PresentOlds(l) == {n \in EntryIndexes : OldKeyAt(n) \in DOMAIN RunStart[l].d}

\* the first of them in mapping order
FirstPresent(l) == CHOOSE n \in PresentOlds(l) : \A m \in PresentOlds(l) : n <= m

\* several distinct old keys map to one new key, which l's catalog did not
\* hold when the run started while it held some of the old keys, and
\* merge_language_files has saved l's catalog
ManyToOneCase(l) ==
    /\ Len(merge_mapping) >= 2
    /\ \A n \in EntryIndexes : NewKeyAt(n) = NewKeyAt(1) /\ NewKeyAt(n) # None
    /\ \A m, n \in EntryIndexes : m # n => OldKeyAt(m) # OldKeyAt(n)
    /\ RunStart[l].kind = "dict"
    /\ NewKeyAt(1) \notin DOMAIN RunStart[l].d
    /\ PresentOlds(l) # {}
    /\ outcome[l] = "saved"

\* the keys merge_language_files adds to l's catalog after the mapping loop
AddedNewKeys(l) ==
    NewKeySet \ ((DOMAIN RunStart[l].d \ OldKeys) \cup {NewKeyAt(1)})

\* C15 as stated: when several old keys map to the same new key n and n is
\* not in the catalog, after merge_language_files n holds the entry of the
\* first of those old keys that was in the catalog, all of them are absent
\* and the catalog has (number of those old keys present - 1) keys fewer.
C15_ManyToOneCoalesced ==
    \A l \in Langs :
        ManyToOneCase(l) =>
            /\ store[l].kind = "dict"
            /\ NewKeyAt(1) \in DOMAIN store[l].d
            /\ store[l].d[NewKeyAt(1)] = RunStart[l].d[OldKeyAt(FirstPresent(l))]
            /\ OldKeys \cap DOMAIN store[l].d = {}
            /\ Cardinality(DOMAIN store[l].d) =
                  Cardinality(DOMAIN RunStart[l].d) - (Cardinality(PresentOlds(l)) - 1)

\* C15 amended: n holds the entry of the first present old key, every old
\* key other than common_model and common_send_message is absent, and the
\* key count is the count before, less (number of old keys present - 1),
\* plus the number of the keys common_model and common_send_message that
\* merge_language_files added because the mapping loop left them absent.
C15_ManyToOneCoalescedPlusNewKeys ==
    \A l \in Langs :
        ManyToOneCase(l) =>
            /\ store[l].kind = "dict"
            /\ NewKeyAt(1) \in DOMAIN store[l].d
            /\ store[l].d[NewKeyAt(1)] = RunStart[l].d[OldKeyAt(FirstPresent(l))]
            /\ (OldKeys \ NewKeySet) \cap DOMAIN store[l].d = {}
            /\ AddedNewKeys(l) \subseteq DOMAIN store[l].d
            /\ Cardinality(DOMAIN store[l].d) =
                  Cardinality(DOMAIN RunStart[l].d)
                    - (Cardinality(PresentOlds(l)) - 1)
                    + Cardinality(AddedNewKeys(l))

\* two old keys with different entries were coalesced and the catalog was
\* saved
C15_Witness ==
    \E l \in Langs :
        /\ ManyToOneCase(l)
        /\ Cardinality(PresentOlds(l)) = 2
        /\ RunStart[l].d[OldKeyAt(1)] # RunStart[l].d[OldKeyAt(2)]
        /\ store[l].kind = "dict"
        /\ NewKeyAt(1) \in DOMAIN store[l].d

----------------------------------------------------------------------------
(* key_merger.py: update_code_references on source trees of every shape *)

\* the lines an artifact is made of: plain text and references to p (also
\* written P) and q, ended by either terminator
RewriteLines ==
    {EndedBy(line, e) :
        line \in {TextLine, Ref("data-i18n", "p"), Ref("getMessage", "P"),
                  Ref("data-i18n-title", "q")},
        e \in LineSeps}

\* the sequences of at most n lines
RECURSIVE LinesUpTo(_)
LinesUpTo(n) ==
    IF n = 0
    THEN {<<>>}
    ELSE LinesUpTo(n - 1)
           \cup {Append(ls, line) : ls \in {x \in LinesUpTo(n - 1) : Len(x) = n - 1},
                                    line \in RewriteLines}

\* what manifest.json holds: a placeholder, or a line a pattern of the
\* merger would match in a file it scanned
ManifestContents ==
    {<<Ref("__MSG__", "p")>>, <<EndedBy(Ref("data-i18n", "p"), CRLF)>>}

\* run_merge has come to update_code_references; merge_language_files found
\* no catalog to merge
InitRewrite ==
    /\ merge_mapping \in Mappings
    /\ store = [l \in Langs |-> Absent]
    /\ \E page \in LinesUpTo(MaxLines), manifest \in ManifestContents :
          files = [f \in FileNames |-> IF f = "sidebar.html" THEN page ELSE manifest]
    /\ linesep \in LineSeps
    /\ pc = "update"
    /\ lang = Len(LangOrder)
    /\ idx = 1
    /\ messages = Absent
    /\ outcome = [l \in Langs |-> "load_error"]
    /\ outcome1 = Pending
    /\ rerun = FALSE
    /\ store0 = store
    /\ store1 = store
    /\ files0 = files
    /\ written = {}
    /\ AnalysisIdle

NextRewrite ==
    \/ UpdateCodeReferences
    \/ NothingToUpdate

SpecRewrite == InitRewrite /\ [][NextRewrite]_vars

\* an update step is about to run for the mapping entry at idx
UpdateStep == pc = "update" /\ Len(merge_mapping) > 0

\* artifact f holds a reference the merger's patterns match for key
HasReference(f, key) ==
    /\ FileExt[f] \in MergerScanExts
    /\ \E n \in 1..Len(files[f]) : LineUsesKey(files[f][n], key)

\* C13 as stated: a step of update_code_references writes no artifact that
\* holds no reference to the old key; an artifact is written only when the
\* replacement changes its content; and in a written artifact only the key
\* literal of the matched references changes, every other line and every
\* line terminator being what it was.
C13_ZeroMatchUntouched ==
    [][UpdateStep =>
          \A f \in FileNames :
              /\ (f \in written' \ written \/ files'[f] # files[f]) =>
                    HasReference(f, OldKeyAt(idx))
              /\ f \in written' \ written =>
                    UpdatedContent(ReadText(files[f]), OldKeyAt(idx), NewKeyAt(idx))
                        # ReadText(files[f])
              /\ files'[f] # files[f] => f \in written'
              /\ Len(files'[f]) = Len(files[f])
              /\ \A n \in 1..Len(files[f]) :
                    files'[f][n] =
                        IF files'[f] # files[f] /\ LineUsesKey(files[f][n], OldKeyAt(idx))
                        THEN [files[f][n] EXCEPT !.key = StrOf(NewKeyAt(idx))]
                        ELSE files[f][n]]_vars

\* the key strings the mapping names, as old or as new key
NamedKeys ==
    {OldKeyAt(n) : n \in EntryIndexes} \cup ({NewKeyAt(n) : n \in EntryIndexes} \ {None})

\* C14 as stated: the step of update_code_references for an entry old->None
\* leaves every artifact as it is: none is written, and no line comes to
\* reference a key string the mapping does not name.
C14_TombstoneLeavesSource ==
    [][(UpdateStep /\ NewKeyAt(idx) = None) =>
          /\ files' = files
          /\ written' = written
          /\ \A f \in FileNames :
                \A n \in 1..Len(files'[f]) :
                    (files'[f][n].kind \in RefKinds /\ files'[f][n] # files[f][n]) =>
                        files'[f][n].key \in NamedKeys]_vars

----------------------------------------------------------------------------
(* i18n_manager.py: the analysis run *)

\* self.scan_patterns of I18nManager: "**/*.js", "**/*.html", "**/*.json"
ManagerScanExts == {"js", "html", "json"}

\* the kinds the first eight patterns of self.i18n_patterns capture a key of
ManagerQuotedKinds == {"getMessage", "data-i18n", "data-i18n-title",
                       "data-i18n-placeholder", "data-i18n-suffix"}

\* the key literals of the model that hold an underscore, which the group
\* ([^_]+) of the pattern __MSG_([^_]+)__ cannot span
HasUnderscore(k) == k \in {"common_model", "common_send_message"}

\* the matches of the nine patterns on one line
ExtractedKeys(line) ==
    IF line.kind \in ManagerQuotedKinds
    THEN {line.key} \ {""}
    ELSE IF line.kind = "__MSG__" /\ ~HasUnderscore(line.key)
         THEN {line.key} \ {""}
         ELSE {}

\* scan_code_for_keys(): found_keys
ScanCodeForKeys(fs) ==
    UNION {ExtractedKeys(fs[f][n]) :
             <<f, n>> \in {x \in UNION {{g} \X (1..Len(fs[g])) : g \in FileNames} :
                             FileExt[x[1]] \in ManagerScanExts}}

\* load_language_keys(): the languages whose messages.json exists and
\* parses, with their keys
LanguageKeys(st) ==
    [l \in {k \in Langs : st[k].kind = "dict"} |-> DOMAIN st[l].d]

\* load_language_keys catches json.JSONDecodeError and UnicodeDecodeError
\* only: the PermissionError of open() on a file that cannot be read and the
\* AttributeError of set(messages.keys()) on a JSON array end the run
LoadCrashes(st) == \E l \in Langs : st[l].kind \in {"unreadable", "list"}

\* find_unused_keys taking the difference the wrong way round
UnusedOf_Swapped(ck, lang_keys) == ck \ lang_keys

\* missing = code_keys - lang_keys
MissingOf(ck, lang_keys) == ck \ lang_keys

\* unused = lang_keys - code_keys
UnusedOf(ck, lang_keys) == lang_keys \ ck

\* the dict find_missing_keys returns: only languages with missing keys
MissingKeys(ck, language_keys) ==
    [l \in {k \in DOMAIN language_keys : MissingOf(ck, language_keys[k]) # {}} |->
        MissingOf(ck, language_keys[l])]

\* the dict find_unused_keys returns: only languages with unused keys
UnusedKeys(ck, language_keys) ==
    [l \in {k \in DOMAIN language_keys : UnusedOf(ck, language_keys[k]) # {}} |->
        UnusedOf(ck, language_keys[l])]

\* str.strip() on a sequence of characters
Whitespace == {" "}

RECURSIVE LStrip(_)
LStrip(t) ==
    IF t # <<>> /\ Head(t) \in Whitespace THEN LStrip(Tail(t)) ELSE t

RECURSIVE RStrip(_)
RStrip(t) ==
    IF t # <<>> /\ t[Len(t)] \in Whitespace
    THEN RStrip(SubSeq(t, 1, Len(t) - 1))
    ELSE t

\* the grouping text taken without strip()
GroupText_NoStrip(e) == e.message

Strip(t) == RStrip(LStrip(t))

\* isinstance(value, dict) and 'message' in value
HasMessage(e) == e.aux # "nomsg"

\* message_text = value['message'].strip()
GroupText(e) == Strip(e.message)

\* text_to_keys: the keys of a catalog by their stripped, non-empty text
\* (a list in the code, in the catalog's order; here the set of its keys)
TextToKeys(d) ==
    [t \in {GroupText(d[k]) : k \in {x \in DOMAIN d : HasMessage(d[x])}} \ {<<>>} |->
        {k \in DOMAIN d : HasMessage(d[k]) /\ GroupText(d[k]) = t}]

\* duplicates = {text: keys for ... if len(keys) > 1}
Duplicates(d) ==
    [t \in {u \in DOMAIN TextToKeys(d) : Cardinality(TextToKeys(d)[u]) > 1} |->
        TextToKeys(d)[t]]

\* the dict find_duplicate_text_keys returns: only languages with clusters
DuplicateTexts(st) ==
    [l \in {k \in DOMAIN LanguageKeys(st) : DOMAIN Duplicates(st[k].d) # {}} |->
        Duplicates(st[l].d)]

UnchangedByAnalysis ==
    UNCHANGED <<files, merge_mapping, pc, lang, idx, messages, outcome, rerun,
                store0, files0, store1, outcome1, written, linesep>>

\* missing_keys = self.find_missing_keys()
FindMissingKeys ==
    /\ apc = "missing"
    /\ code_keys' = ScanCodeForKeys(files)
    /\ IF LoadCrashes(store)
       THEN apc' = "crashed" /\ UNCHANGED missing_keys
       ELSE /\ missing_keys' = MissingKeys(code_keys', LanguageKeys(store))
            /\ apc' = "unused"
    /\ UNCHANGED <<store, unused_keys, duplicate_texts, template, todo,
                   clean_confirmed, lang_confirmed>>
    /\ UnchangedByAnalysis

\* unused_keys = self.find_unused_keys()
FindUnusedKeys ==
    /\ apc = "unused"
    /\ code_keys' = ScanCodeForKeys(files)
    /\ IF LoadCrashes(store)
       THEN apc' = "crashed" /\ UNCHANGED unused_keys
       ELSE /\ unused_keys' = UnusedKeys(code_keys', LanguageKeys(store))
            /\ apc' = "duplicates"
    /\ UNCHANGED <<store, missing_keys, duplicate_texts, template, todo,
                   clean_confirmed, lang_confirmed>>
    /\ UnchangedByAnalysis

\* duplicate_texts = self.find_duplicate_text_keys()
FindDuplicateTextKeys ==
    /\ apc = "duplicates"
    /\ IF LoadCrashes(store)
       THEN apc' = "crashed" /\ UNCHANGED duplicate_texts
       ELSE /\ duplicate_texts' = DuplicateTexts(store)
            /\ apc' = "ask_template"
    /\ UNCHANGED <<store, code_keys, missing_keys, unused_keys, template, todo,
                   clean_confirmed, lang_confirmed>>
    /\ UnchangedByAnalysis

\* what the user may type at a prompt
Responses == {"", "y", "n"}

\* if missing_keys: "Generate missing keys template? (Y/n)"; the template
\* goes to scripts/missing_keys.json, and a failure to write it ends the run
AskGenerateTemplate ==
    /\ apc = "ask_template"
    /\ IF DOMAIN missing_keys = {}
       THEN apc' = "ask_clean" /\ UNCHANGED template
       ELSE \E response \in Responses, io \in {"ok", "open_fails"} :
               IF response \in {"", "y"}
               THEN IF io = "ok"
                    THEN /\ template' = UNION {missing_keys[l] : l \in DOMAIN missing_keys}
                         /\ apc' = "ask_clean"
                    ELSE apc' = "crashed" /\ UNCHANGED template
               ELSE apc' = "ask_clean" /\ UNCHANGED template
    /\ UNCHANGED <<store, code_keys, missing_keys, unused_keys, duplicate_texts,
                   todo, clean_confirmed, lang_confirmed>>
    /\ UnchangedByAnalysis

\* the cleanup entered whatever the user answered
AskCleanUnusedKeys_NoQuestion ==
    /\ apc = "ask_clean"
    /\ IF DOMAIN unused_keys = {}
       THEN apc' = "done" /\ UNCHANGED <<todo, clean_confirmed>>
       ELSE \E response \in Responses :
               /\ clean_confirmed' = (response = "y")
               /\ todo' = DOMAIN unused_keys
               /\ apc' = "clean"
    /\ UNCHANGED <<store, code_keys, missing_keys, unused_keys, duplicate_texts,
                   template, lang_confirmed>>
    /\ UnchangedByAnalysis

\* if unused_keys: "Clean unused keys interactively? (y/N)"
AskCleanUnusedKeys ==
    /\ apc = "ask_clean"
    /\ IF DOMAIN unused_keys = {}
       THEN apc' = "done" /\ UNCHANGED <<todo, clean_confirmed>>
       ELSE \E response \in Responses :
               IF response = "y"
               THEN /\ clean_confirmed' = TRUE
                    /\ todo' = DOMAIN unused_keys
                    /\ apc' = "clean"
               ELSE apc' = "done" /\ UNCHANGED <<todo, clean_confirmed>>
    /\ UNCHANGED <<store, code_keys, missing_keys, unused_keys, duplicate_texts,
                   template, lang_confirmed>>
    /\ UnchangedByAnalysis

\* the catalog without the keys of `keys`
WithoutKeys(d, keys) == [k \in DOMAIN d \ keys |-> d[k]]

\* clean_unused_keys_interactive: one iteration of its loop, on the next
\* language of unused_keys: "Remove all n unused keys from <lang>? (y/N)";
\* on yes the catalog is read, the keys are removed and it is written back
CleanUnusedKeysInteractive ==
    /\ apc = "clean"
    /\ \E l \in todo, response \in Responses, io \in {"ok", "open_fails", "write_fails"} :
          /\ todo' = todo \ {l}
          /\ apc' = IF todo \ {l} = {} THEN "done" ELSE "clean"
          /\ IF response = "y"
             THEN /\ lang_confirmed' = lang_confirmed \cup {l}
                  /\ store' = [store EXCEPT ![l] =
                        IF @.kind # "dict" \/ io = "open_fails"
                        THEN @
                        ELSE IF io = "write_fails"
                             THEN Malformed
                             ELSE DictFile(WithoutKeys(@.d, unused_keys[l]))]
             ELSE UNCHANGED <<store, lang_confirmed>>
    /\ UNCHANGED <<code_keys, missing_keys, unused_keys, duplicate_texts,
                   template, clean_confirmed>>
    /\ UnchangedByAnalysis

----------------------------------------------------------------------------
(* Initial states of an analysis run *)

AnalysisKeys == {"p", "q", "common_model"}

\* message texts with and without surrounding blanks, and the entries made
\* of them; the last entry has no "message" field
AnalysisTexts ==
    {<<>>, <<" ">>, <<"a">>, <<" ", "a">>, <<"a", " ">>, <<"b">>}

AnalysisEntries ==
    {Entry(t, "-") : t \in AnalysisTexts} \cup {Entry(<<>>, "nomsg")}

AnalysisCatalogs(n) ==
    UNION {[S -> AnalysisEntries] :
             S \in {T \in SUBSET AnalysisKeys : Cardinality(T) <= n}}

AnalysisOtherStores ==
    {Absent, Unreadable, Malformed, ListFile({"p"}),
     DictFile([k \in {"q", "r"} |-> Entry(<<"a">>, "-")])}

\* the source trees analysed
AnalysisFiles ==
    { [f \in FileNames |-> <<>>],
      [f \in FileNames |-> IF f = "sidebar.html"
                           THEN <<Ref("data-i18n", "p"), TextLine>>
                           ELSE <<Ref("__MSG__", "q")>>],
      [f \in FileNames |-> IF f = "sidebar.html"
                           THEN <<Ref("getMessage", "common_model")>>
                           ELSE <<Ref("__MSG__", "common_model"),
                                  Ref("data-i18n-suffix", "r")>>],
      [f \in FileNames |-> IF f = "sidebar.html"
                           THEN <<Ref("data-i18n-title", "P"),
                                  Ref("data-i18n-placeholder", "q")>>
                           ELSE <<>>] }

InitAnalysis ==
    /\ \E free \in Langs, c \in AnalysisCatalogs(MaxCatKeys),
          o \in AnalysisOtherStores :
          store = [l \in Langs |-> IF l = free THEN DictFile(c) ELSE o]
    /\ files \in AnalysisFiles
    /\ store0 = store
    /\ files0 = files
    /\ store1 = store
    /\ merge_mapping = <<>>
    /\ pc = "idle"
    /\ lang = 1
    /\ idx = 1
    /\ messages = Absent
    /\ outcome = Pending
    /\ outcome1 = Pending
    /\ rerun = FALSE
    /\ written = {}
    /\ linesep = LF
    /\ apc = "missing"
    /\ code_keys = {}
    /\ missing_keys = <<>>
    /\ unused_keys = <<>>
    /\ duplicate_texts = <<>>
    /\ template = {}
    /\ todo = {}
    /\ clean_confirmed = FALSE
    /\ lang_confirmed = {}

NextAnalysis ==
    \/ FindMissingKeys
    \/ FindUnusedKeys
    \/ FindDuplicateTextKeys
    \/ AskGenerateTemplate
    \/ AskCleanUnusedKeys
    \/ CleanUnusedKeysInteractive

SpecAnalysis == InitAnalysis /\ [][NextAnalysis]_vars

----------------------------------------------------------------------------
(* Properties of the analysis run *)

\* a result dict's set for a language, empty when the language has no item
SetFor(result, l) == IF l \in DOMAIN result THEN result[l] ELSE {}

\* find_missing_keys and find_unused_keys have both returned
Classified == apc \in {"duplicates", "ask_template", "ask_clean", "clean", "done"}

\* the languages load_language_keys loaded when the run started
Loaded == {l \in Langs : store0[l].kind = "dict"}

\* C8: for every loaded language, missing = referenced - catalog keys and
\* unused = catalog keys - referenced; the two are disjoint and every
\* catalog key is either unused or referenced, never both; a language that
\* was not loaded has no item.
C8_MissingUnusedClassification ==
    Classified =>
        /\ DOMAIN missing_keys \subseteq Loaded
        /\ DOMAIN unused_keys \subseteq Loaded
        /\ \A l \in Loaded :
              LET catalogKeys == DOMAIN store0[l].d
                  missing == SetFor(missing_keys, l)
                  unused == SetFor(unused_keys, l)
              IN  /\ missing = {k \in code_keys : k \notin catalogKeys}
                  /\ unused = {k \in catalogKeys : k \notin code_keys}
                  /\ missing \cap unused = {}
                  /\ \A k \in catalogKeys : (k \in unused) # (k \in code_keys)

\* a language with a missing key, an unused key and a used key
C8_Witness ==
    /\ Classified
    /\ \E l \in Loaded :
          /\ SetFor(missing_keys, l) # {}
          /\ SetFor(unused_keys, l) # {}
          /\ DOMAIN store0[l].d \cap code_keys # {}

\* find_duplicate_text_keys has returned
Clustered == apc \in {"ask_template", "ask_clean", "clean", "done"}

\* a language's clusters: text -> keys, empty when the language has no item
ClustersOf(l) == IF l \in DOMAIN duplicate_texts THEN duplicate_texts[l] ELSE <<>>

\* the keys of a language's clusters
ClusterKeys(l) == UNION {ClustersOf(l)[t] : t \in DOMAIN ClustersOf(l)}

\* the trimmed message text of key k in l's catalog, <<>> without a message
TrimmedText(l, k) ==
    IF HasMessage(store0[l].d[k]) THEN Strip(store0[l].d[k].message) ELSE <<>>

\* C9: in one language's catalog, two keys with the same non-empty trimmed
\* text are together in one cluster; a key whose trimmed text is empty or
\* is no other key's is in no cluster; a cluster holds keys of its own
\* language's catalog only, all with the cluster's text.
C9_DuplicateClustering ==
    Clustered =>
        /\ DOMAIN duplicate_texts \subseteq Loaded
        /\ \A l \in Loaded :
              LET cat == DOMAIN store0[l].d
              IN  /\ \A j, k \in cat :
                        (j # k /\ TrimmedText(l, j) # <<>>
                           /\ TrimmedText(l, j) = TrimmedText(l, k)) =>
                            \E t \in DOMAIN ClustersOf(l) :
                                {j, k} \subseteq ClustersOf(l)[t]
                  /\ \A k \in cat :
                        (TrimmedText(l, k) = <<>>
                           \/ \A j \in cat \ {k} :
                                 TrimmedText(l, j) # TrimmedText(l, k)) =>
                            k \notin ClusterKeys(l)
                  /\ \A t \in DOMAIN ClustersOf(l) :
                        \A k \in ClustersOf(l)[t] :
                            k \in cat /\ TrimmedText(l, k) = t

\* two keys whose texts differ only by surrounding blanks are clustered,
\* and the other language holds the same text under keys of its own
C9_Witness ==
    /\ Clustered
    /\ \E l \in Loaded, m \in Loaded :
          /\ l # m
          /\ \E j, k \in DOMAIN store0[l].d :
                /\ store0[l].d[j].message # store0[l].d[k].message
                /\ {j, k} \subseteq ClusterKeys(l)
                /\ TrimmedText(l, j) = TrimmedText(l, k)
                /\ \E r \in DOMAIN store0[m].d :
                      /\ r \notin DOMAIN store0[l].d
                      /\ TrimmedText(m, r) = TrimmedText(l, j)

\* C10: the three find_ operations write neither a catalog nor an artifact;
\* a language's catalog differs from what it was when run_analysis started
\* only if the user answered yes to the cleanup and yes to the removal for
\* that language; without those answers every catalog ends unchanged.
C10_AnalysisReadOnly ==
    /\ files = files0
    /\ apc \in {"missing", "unused", "duplicates", "ask_template", "ask_clean"} =>
          store = store0
    /\ \A l \in Langs :
          store[l] # store0[l] => clean_confirmed /\ l \in lang_confirmed
    /\ lang_confirmed # {} => clean_confirmed
    /\ (apc = "done" /\ ~clean_confirmed) => store = store0

\* the user confirmed the removal for one language and declined it for
\* another: the first catalog lost its unused keys, the second is as it was
C10_Witness ==
    /\ apc = "done"
    /\ \E l, m \in Langs :
          /\ l \in lang_confirmed
          /\ store[l].kind = "dict"
          /\ store[l] # store0[l]
          /\ m \in DOMAIN unused_keys
          /\ m \notin lang_confirmed
          /\ store[m] = store0[m]

\* language l's catalog could not be loaded or parsed when the run started:
\* no file, no permission, no JSON, or JSON that is not an object
Failed(l) == store0[l].kind # "dict"

\* the catalogs as they would be were language l not present
WithoutLanguage(st, l) == [st EXCEPT ![l] = Absent]

\* C11 as stated: when one language's catalog cannot be loaded or parsed,
\* the analysis still processes every other language: once find_missing_keys,
\* find_unused_keys and find_duplicate_text_keys have had their turn, every
\* other language has the missing set, the unused set and the clusters it
\* would have were the failing language not present.
C11_LanguageIndependence ==
    \A l \in Langs :
        Failed(l) =>
            LET alone == WithoutLanguage(store0, l)
                ck == ScanCodeForKeys(files0)
            IN  \A m \in Loaded :
                    /\ apc # "missing" =>
                          SetFor(missing_keys, m) =
                              SetFor(MissingKeys(ck, LanguageKeys(alone)), m)
                    /\ apc \notin {"missing", "unused"} =>
                          SetFor(unused_keys, m) =
                              SetFor(UnusedKeys(ck, LanguageKeys(alone)), m)
                    /\ apc \notin {"missing", "unused", "duplicates"} =>
                          ClustersOf(m) =
                              IF m \in DOMAIN DuplicateTexts(alone)
                              THEN DuplicateTexts(alone)[m]
                              ELSE <<>>

\* language l has a directory without a messages.json
NotFound(l) == store0[l].kind = "absent"

\* C12 as stated: a language without a catalog file is reconciled as a
\* catalog with zero keys: its missing set is the full set of referenced
\* keys and its unused set is empty, while every loaded language has its
\* own differences.
C12_NotFoundAsEmpty ==
    Classified =>
        /\ \A l \in Langs :
              NotFound(l) =>
                  /\ SetFor(missing_keys, l) = MissingOf(code_keys, {})
                  /\ SetFor(unused_keys, l) = UnusedOf(code_keys, {})
        /\ \A m \in Loaded :
              /\ SetFor(missing_keys, m) = MissingOf(code_keys, DOMAIN store0[m].d)
              /\ SetFor(unused_keys, m) = UnusedOf(code_keys, DOMAIN store0[m].d)

====
